---- MODULE Spec2Model ----
(***************************************************************************)
(* Model of app.py, the Streamlit "NGSS Toolkit (Skills & Standards)".     *)
(*                                                                         *)
(* A Python str is a sequence of one-character strings.  A DataFrame is a  *)
(* record [cols, index, rows]: the column labels in order (labels may      *)
(* repeat, as pandas allows), the row labels in order, and one tuple of    *)
(* cells per row, positionally aligned with cols.  A cell is a record      *)
(* [k, v]: k = "str" with the text v, k = "num" with the decimal text v of *)
(* a number, or k = "nan" (pandas' missing value, v empty).                *)
(***************************************************************************)
EXTENDS Integers, Sequences, FiniteSets, TLC

VARIABLES
    pc,            \* position of the function-level harnesses ("app" in the application)
    inp,           \* arguments handed to the function under study
    out,           \* what the function returned
    standards_df,  \* st.session_state.standards_df
    ingested,      \* history: the frames whose rows were stored since the last clear
    warnings,      \* st.warning messages of the last action: the file names they name
    last           \* the last sidebar action: its button, its inputs, whether it raised

vars == <<pc, inp, out, standards_df, ingested, warnings, last>>

(***************************************************************************)
(* Bounds of the model.                                                    *)
(***************************************************************************)
MaxLen == 3        \* longest raw header given to _normalize_header
MaxCols == 2       \* most columns of a table given to canonicalize_headers
MaxRows == 2       \* most rows of a table given to a table function
MaxPat == 2        \* longest search string / column pattern
MaxBatch == 2      \* most files of one upload or one /data directory
MaxStored == 3     \* an ingestion is started only below this many stored rows
MaxShown == 3      \* most rows of a dataset handed to render_standards

(***************************************************************************)
(* Python str helpers.                                                     *)
(***************************************************************************)
LowerLetters ==
    <<"a","b","c","d","e","f","g","h","i","j","k","l","m","n","o","p","q","r","s","t","u","v","w","x","y","z">>
UpperLetters ==
    <<"A","B","C","D","E","F","G","H","I","J","K","L","M","N","O","P","Q","R","S","T","U","V","W","X","Y","Z">>
Digits == <<"0","1","2","3","4","5","6","7","8","9">>

Range(s) == {s[i] : i \in DOMAIN s}

\* the character class [a-z0-9]
AlnumLower == Range(LowerLetters) \cup Range(Digits)

\* the upper-case letters
UpperSet == Range(UpperLetters)

\* the characters str.strip() removes
Whitespace == {" ", "\t", "\n", "\r"}

\* str.lower() on one character
LowerChar(c) ==
    IF c \in UpperSet
    THEN LowerLetters[CHOOSE i \in DOMAIN UpperLetters : UpperLetters[i] = c]
    ELSE c

\* str.lower()
Lower(s) == [i \in DOMAIN s |-> LowerChar(s[i])]

RECURSIVE LStrip(_, _)
\* str.lstrip(chars)
LStrip(s, chars) ==
    IF s # <<>> /\ Head(s) \in chars THEN LStrip(Tail(s), chars) ELSE s

RECURSIVE RStrip(_, _)
\* str.rstrip(chars)
RStrip(s, chars) ==
    IF s # <<>> /\ s[Len(s)] \in chars
    THEN RStrip(SubSeq(s, 1, Len(s) - 1), chars)
    ELSE s

\* str.strip(chars)
Strip(s, chars) == RStrip(LStrip(s, chars), chars)

RECURSIVE ReSubNonAlnum(_)
\* re.sub(r"[^a-z0-9]+", "_", s): every maximal run outside [a-z0-9] becomes "_"
ReSubNonAlnum(s) ==
    IF s = <<>> THEN <<>>
    ELSE IF Head(s) \in AlnumLower THEN <<Head(s)>> \o ReSubNonAlnum(Tail(s))
    ELSE IF Len(s) > 1 /\ s[2] \notin AlnumLower THEN ReSubNonAlnum(Tail(s))
    ELSE <<"_">> \o ReSubNonAlnum(Tail(s))

RECURSIVE ReSubUnderscores(_)
\* re.sub(r"_+", "_", s): every maximal run of "_" becomes one "_"
ReSubUnderscores(s) ==
    IF s = <<>> THEN <<>>
    ELSE IF Head(s) = "_" /\ Len(s) > 1 /\ s[2] = "_" THEN ReSubUnderscores(Tail(s))
    ELSE <<Head(s)>> \o ReSubUnderscores(Tail(s))

\* Python's None, where a str is expected
None == <<"<None>">>

\* (h or "")
OrEmpty(h) == IF h = None THEN <<>> ELSE h

\* a plausible slip: the underscores are trimmed before the runs are replaced
NormalizeStripFirst(h) ==
    ReSubUnderscores(ReSubNonAlnum(Strip(Lower(Strip(OrEmpty(h), Whitespace)), {"_"})))

\* _normalize_header(h)
_normalize_header(h) ==
    Strip(ReSubUnderscores(ReSubNonAlnum(Lower(Strip(OrEmpty(h), Whitespace)))), {"_"})

(***************************************************************************)
(* DataFrames.                                                             *)
(***************************************************************************)
StrCell(v) == [k |-> "str", v |-> v]
NumCell(v) == [k |-> "num", v |-> v]
NaN == [k |-> "nan", v |-> <<>>]

\* one cell under Series.astype(str): str(float("nan")) is "nan"
AsStr(cell) == IF cell.k = "nan" THEN <<"n","a","n">> ELSE cell.v

\* the positions 1..n, in order
Positions(n) == [i \in 1..n |-> i]

\* the positions of the columns labelled name, left to right
PositionsOf(cols, name) ==
    LET Labelled(i) == cols[i] = name
    IN  SelectSeq(Positions(Len(cols)), Labelled)

RECURSIVE PositionsOfAll(_, _)
\* the column positions a list of labels selects: each label selects every
\* column carrying it
PositionsOfAll(cols, keys) ==
    IF keys = <<>> THEN <<>>
    ELSE PositionsOf(cols, Head(keys)) \o PositionsOfAll(cols, Tail(keys))

\* DataFrame.take(positions, axis=1)
TakeCols(df, pos) ==
    [cols  |-> [j \in DOMAIN pos |-> df.cols[pos[j]]],
     index |-> df.index,
     rows  |-> [r \in DOMAIN df.rows |-> [j \in DOMAIN pos |-> df.rows[r][pos[j]]]]]

\* DataFrame.take(positions, axis=0): the rows at the positions, labels kept
TakeRows(df, pos) ==
    [cols  |-> df.cols,
     index |-> [j \in DOMAIN pos |-> df.index[pos[j]]],
     rows  |-> [j \in DOMAIN pos |-> df.rows[pos[j]]]]

\* df[keys] for a list of column labels
GetItem(df, keys) == TakeCols(df, PositionsOfAll(df.cols, keys))

\* df[name] = value, for a label df does not have yet: a new last column
AddColumn(df, name, value) ==
    [cols  |-> Append(df.cols, name),
     index |-> df.index,
     rows  |-> [r \in DOMAIN df.rows |-> Append(df.rows[r], value)]]

\* the options of the "Assign grade" selectbox that the model draws
DefaultGrades == {<<>>, <<"6","t","h">>}

\* a frame with a fresh RangeIndex
Frame(cols, rows) ==
    [cols |-> cols, index |-> [i \in DOMAIN rows |-> i - 1], rows |-> rows]

(***************************************************************************)
(* Bounded input sets.                                                     *)
(***************************************************************************)
RECURSIVE StringsUpTo(_, _)
\* the strings over chars of length at most n
StringsUpTo(chars, n) ==
    IF n = 0 THEN {<<>>}
    ELSE LET shorter == StringsUpTo(chars, n - 1)
         IN  shorter \cup {Append(s, c) : s \in shorter, c \in chars}

RECURSIVE SeqsUpTo(_, _)
\* the sequences over S of length at most n
SeqsUpTo(S, n) ==
    IF n = 0 THEN {<<>>}
    ELSE LET shorter == SeqsUpTo(S, n - 1)
         IN  shorter \cup {Append(s, x) : s \in shorter, x \in S}

RECURSIVE DistinctSeqs(_, _)
\* the sequences of at most n distinct members of S
DistinctSeqs(S, n) ==
    IF n = 0 THEN {<<>>}
    ELSE LET shorter == DistinctSeqs(S, n - 1)
         IN  shorter \cup UNION {{Append(s, x) : x \in S \ Range(s)} : s \in shorter}

(***************************************************************************)
(* Header canonicalization.                                                *)
(***************************************************************************)
GRADE == <<"g","r","a","d","e">>

ALIAS_MAP == <<
    [canon |-> <<"g","r","a","d","e">>,
     variants |-> <<
        <<"g","r","a","d","e">>,
        <<"g","r">>,
        <<"g">>,
        <<"G","r","a","d","e">>>>],
    [canon |-> <<"c","o","d","e">>,
     variants |-> <<
        <<"c","o","d","e">>,
        <<"n","g","s","s">>,
        <<"i","d">>,
        <<"p","e","_","c","o","d","e">>,
        <<"p","e">>,
        <<"P","E"," ","C","o","d","e">>>>],
    [canon |-> <<"t","i","t","l","e">>,
     variants |-> <<
        <<"t","i","t","l","e">>,
        <<"s","t","a","t","e","m","e","n","t">>,
        <<"p","e","r","f","o","r","m","a","n","c","e","_","e","x","p","e","c","t","a","t","i","o","n">>,
        <<"p","e","_","s","t","a","t","e","m","e","n","t">>,
        <<"P","e","r","f","o","r","m","a","n","c","e"," ","E","x","p","e","c","t","a","t","i","o","n">>>>],
    [canon |-> <<"d","o","m","a","i","n">>,
     variants |-> <<
        <<"d","o","m","a","i","n">>,
        <<"t","o","p","i","c">>,
        <<"d","i","s","c","i","p","l","i","n","a","r","y","_","c","o","r","e","_","i","d","e","a">>,
        <<"d","c","i","_","d","o","m","a","i","n">>>>],
    [canon |-> <<"d","c","i">>,
     variants |-> <<
        <<"d","c","i">>,
        <<"d","i","s","c","i","p","l","i","n","a","r","y","_","c","o","r","e","_","i","d","e","a">>,
        <<"c","o","r","e","_","i","d","e","a">>>>],
    [canon |-> <<"s","e","p">>,
     variants |-> <<
        <<"s","e","p">>,
        <<"s","c","i","e","n","c","e","_","a","n","d","_","e","n","g","i","n","e","e","r","i","n","g","_","p","r","a","c","t","i","c","e","s">>>>],
    [canon |-> <<"c","c","c">>,
     variants |-> <<
        <<"c","c","c">>,
        <<"c","r","o","s","s","c","u","t","t","i","n","g","_","c","o","n","c","e","p","t","s">>>>],
    [canon |-> <<"n","o","t","e","s">>,
     variants |-> <<
        <<"n","o","t","e","s">>,
        <<"d","e","s","c","r","i","p","t","i","o","n">>,
        <<"c","o","m","m","e","n","t">>>>]
>>

PREFERRED_ORDER == <<
    <<"g","r","a","d","e">>,
    <<"c","o","d","e">>,
    <<"t","i","t","l","e">>,
    <<"d","o","m","a","i","n">>,
    <<"d","c","i">>,
    <<"s","e","p">>,
    <<"c","c","c">>,
    <<"n","o","t","e","s">>
>>

\* [v.lower() for v in variants], for every entry of ALIAS_MAP
LoweredVariants ==
    [i \in DOMAIN ALIAS_MAP |-> {Lower(v) : v \in Range(ALIAS_MAP[i].variants)}]

\* norm in [v.lower() for v in variants], for entry i
AliasMatches(norm, i) == norm \in LoweredVariants[i]

\* a plausible slip: the loop over ALIAS_MAP has no break, so the last match wins
MapHeaderLastMatch(col) ==
    LET norm == _normalize_header(col)
        hits == {i \in DOMAIN ALIAS_MAP : AliasMatches(norm, i)}
    IN  IF hits = {} THEN norm
        ELSE ALIAS_MAP[CHOOSE i \in hits : \A j \in hits : j <= i].canon

RECURSIVE FirstMatch(_, _)
\* the loop "for canon, variants in ALIAS_MAP.items()" from entry i on: the
\* canonical name at the first match (break), or None when the loop runs out
FirstMatch(norm, i) ==
    IF i > Len(ALIAS_MAP) THEN None
    ELSE IF AliasMatches(norm, i) THEN ALIAS_MAP[i].canon
    ELSE FirstMatch(norm, i + 1)

\* mapping[col] of canonicalize_headers: mapped or norm
MapHeader(col) ==
    LET norm == _normalize_header(col)
        mapped == FirstMatch(norm, 1)
    IN  IF mapped = None THEN norm ELSE mapped

\* a plausible slip: no grade column is synthesized when no header maps to grade
CanonicalizeNoSynthesis(df) ==
    LET renamed == [df EXCEPT !.cols = [i \in DOMAIN df.cols |-> MapHeader(df.cols[i])]]
        Present(c) == c \in Range(renamed.cols)
        ordered == SelectSeq(PREFERRED_ORDER, Present)
        NotOrdered(c) == c \notin Range(ordered)
        remaining == SelectSeq(renamed.cols, NotOrdered)
    IN  GetItem(renamed, ordered \o remaining)

\* canonicalize_headers(df)
canonicalize_headers(df) ==
    LET renamed == [df EXCEPT !.cols = [i \in DOMAIN df.cols |-> MapHeader(df.cols[i])]]
        withGrade == IF GRADE \notin Range(renamed.cols)
                     THEN AddColumn(renamed, GRADE, StrCell(<<>>))
                     ELSE renamed
        Present(c) == c \in Range(withGrade.cols)
        ordered == SelectSeq(PREFERRED_ORDER, Present)
        NotOrdered(c) == c \notin Range(ordered)
        remaining == SelectSeq(withGrade.cols, NotOrdered)
    IN  GetItem(withGrade, ordered \o remaining)


(***************************************************************************)
(* Grade backfill.                                                         *)
(***************************************************************************)
\* df with the cells of the column at position p rewritten by F
MapColumn(df, p, F(_)) ==
    [df EXCEPT !.rows = [r \in DOMAIN df.rows |-> [df.rows[r] EXCEPT ![p] = F(@)]]]

\* Series.fillna("").astype(str) on one cell
FillnaAsStr(cell) == IF cell.k = "nan" THEN StrCell(<<>>) ELSE StrCell(AsStr(cell))

\* out["grade"] is a Series only when exactly one column is labelled grade: with
\* none the lookup raises KeyError, with several it is a DataFrame, which has no .str
AddGradeRaises(df, grade_value) ==
    grade_value # <<>> /\ Len(PositionsOf(df.cols, GRADE)) # 1

\* a plausible slip: the default is written to every row, not only to the rows
\* whose grade is blank
AddGradeOverwriteAll(df, grade_value) ==
    IF grade_value = <<>> THEN df
    ELSE LET p == PositionsOf(df.cols, GRADE)[1]
             Fill(cell) == StrCell(grade_value)
         IN  MapColumn(df, p, Fill)

\* add_grade_if_missing(df, grade_value), where it does not raise
add_grade_if_missing(df, grade_value) ==
    IF grade_value = <<>> THEN df
    ELSE LET p == PositionsOf(df.cols, GRADE)[1]
             Fill(cell) ==
                 LET s == FillnaAsStr(cell)
                 IN  IF Strip(s.v, Whitespace) = <<>> THEN StrCell(grade_value) ELSE s
         IN  MapColumn(df, p, Fill)

(***************************************************************************)
(* Substring filters.                                                      *)
(***************************************************************************)
\* re.search(pat, s) for the patterns the model draws: "." matches any character
\* but a newline, every other character of the model stands for itself
\* (Series.str.contains is called without regex=False, so pat is a regular
\* expression)
RegexSearch(pat, s) ==
    \E i \in 1..(Len(s) - Len(pat) + 1) :
        \A j \in 1..Len(pat) :
            \/ pat[j] = "." /\ s[i + j - 1] # "\n"
            \/ pat[j] = s[i + j - 1]

\* Series.astype(str).str.lower().str.contains(pat, na=False) on one cell
CellContains(cell, pat) == RegexSearch(pat, Lower(AsStr(cell)))

\* out[m] for the mask "any column contains s"
KeepAnyColumn(df, s) ==
    LET Hit(r) == \E p \in DOMAIN df.cols : CellContains(df.rows[r][p], s)
    IN  TakeRows(df, SelectSeq(Positions(Len(df.rows)), Hit))

\* out[out[c]....contains(v.lower())] for one column label c
KeepColumn(df, c, v) ==
    LET p == PositionsOf(df.cols, c)[1]
        Hit(r) == CellContains(df.rows[r][p], Lower(v))
    IN  TakeRows(df, SelectSeq(Positions(Len(df.rows)), Hit))

RECURSIVE ApplyColFilters(_, _)
\* the loop over col_filters.items(), a sequence of [c, v] in dict order
ApplyColFilters(df, col_filters) ==
    IF col_filters = <<>> THEN df
    ELSE LET f == Head(col_filters)
         IN  ApplyColFilters(IF f.v # <<>> THEN KeepColumn(df, f.c, f.v) ELSE df,
                             Tail(col_filters))

\* filter_contains(df, search, col_filters)
filter_contains(df, search, col_filters) ==
    ApplyColFilters(IF search # <<>> THEN KeepAnyColumn(df, Lower(search)) ELSE df,
                    col_filters)

(***************************************************************************)
(* Sorting.                                                                *)
(***************************************************************************)
\* the characters of the model in code point order
CodePointOrder ==
    <<"\t", "\n", "\r", " ", "-", ".">> \o Digits \o UpperLetters \o <<"_">> \o LowerLetters

CodePointRank(c) == CHOOSE i \in DOMAIN CodePointOrder : CodePointOrder[i] = c

RECURSIVE StrLess(_, _)
\* Python's a < b on str
StrLess(a, b) ==
    IF b = <<>> THEN FALSE
    ELSE IF a = <<>> THEN TRUE
    ELSE IF Head(a) = Head(b) THEN StrLess(Tail(a), Tail(b))
    ELSE CodePointRank(Head(a)) < CodePointRank(Head(b))

Reverse(s) == [i \in DOMAIN s |-> s[Len(s) + 1 - i]]

RECURSIVE InsertAfterEqual(_, _, _)
\* p inserted into the sorted positions, behind every position whose key is not greater
InsertAfterEqual(sorted, p, keys) ==
    IF sorted = <<>> THEN <<p>>
    ELSE IF StrLess(keys[p].v, keys[Head(sorted)].v) THEN <<p>> \o sorted
    ELSE <<Head(sorted)>> \o InsertAfterEqual(Tail(sorted), p, keys)

RECURSIVE StableArgsort(_, _)
\* argsort(kind="stable") of the positions pos by their keys
StableArgsort(pos, keys) ==
    IF pos = <<>> THEN <<>>
    ELSE InsertAfterEqual(StableArgsort(SubSeq(pos, 1, Len(pos) - 1), keys),
                          pos[Len(pos)], keys)

\* a plausible slip: descending order as the ascending stable order reversed
NargsortReverseOnly(keys, ascending) ==
    LET IsNan(i) == keys[i].k = "nan"
        NotNan(i) == ~IsNan(i)
        all == Positions(Len(keys))
        sorted == StableArgsort(SelectSeq(all, NotNan), keys)
    IN  (IF ascending THEN sorted ELSE Reverse(sorted)) \o SelectSeq(all, IsNan)

\* pandas' nargsort(keys, kind="stable", ascending, na_position="last"), which
\* sort_values uses for one sort column: the non-missing keys are reversed before
\* and after the stable sort when descending, the missing ones are put last
Nargsort(keys, ascending) ==
    LET IsNan(i) == keys[i].k = "nan"
        NotNan(i) == ~IsNan(i)
        all == Positions(Len(keys))
        nonNan == SelectSeq(all, NotNan)
        sorted == StableArgsort(IF ascending THEN nonNan ELSE Reverse(nonNan), keys)
    IN  (IF ascending THEN sorted ELSE Reverse(sorted)) \o SelectSeq(all, IsNan)

\* df.sort_values(by=sort_col, ascending=..., kind="stable")
sort_values(df, sort_col, ascending) ==
    LET p == PositionsOf(df.cols, sort_col)[1]
        keys == [r \in DOMAIN df.rows |-> df.rows[r][p]]
    IN  TakeRows(df, Nargsort(keys, ascending))

(***************************************************************************)
(* The Standards pipeline of render_standards.                             *)
(***************************************************************************)
\* work[work["grade"].astype(str).isin(grade_filter)]
KeepGrades(df, grade_filter) ==
    LET p == PositionsOf(df.cols, GRADE)[1]
        Hit(r) == AsStr(df.rows[r][p]) \in grade_filter
    IN  TakeRows(df, SelectSeq(Positions(Len(df.rows)), Hit))

\* the options of the "Filter grades" multiselect
GradeOptions(df) ==
    IF GRADE \notin Range(df.cols) THEN {}
    ELSE LET p == PositionsOf(df.cols, GRADE)[1]
         IN  {AsStr(df.rows[r][p]) : r \in DOMAIN df.rows} \ {<<>>}

\* a plausible slip: the allow-list is applied even when nothing is selected
PresortAlwaysFiltered(df, fs) ==
    filter_contains(KeepGrades(df, fs.grade_filter), fs.search, fs.col_filters)

\* lines 277-280: the table handed to the sort
Presort(df, fs) ==
    filter_contains(IF fs.grade_filter # {} THEN KeepGrades(df, fs.grade_filter) ELSE df,
                    fs.search, fs.col_filters)

\* lines 277-285 of render_standards: the table that is shown and exported
render_standards(df, fs) ==
    GetItem(sort_values(Presort(df, fs), fs.sort_col, fs.sort_dir = "asc"),
            fs.cols_visible)

(***************************************************************************)
(* The application's state before any button is pressed.                   *)
(***************************************************************************)
EmptyFrame == [cols |-> <<>>, index |-> <<>>, rows |-> <<>>]

NoAction ==
    [op |-> "none", files |-> <<>>, grade |-> <<>>, raised |-> FALSE, before |-> EmptyFrame]

AppIdle ==
    /\ standards_df = EmptyFrame
    /\ ingested = <<>>
    /\ warnings = <<>>
    /\ last = NoAction

AppUnchanged == UNCHANGED <<standards_df, ingested, warnings, last>>

(***************************************************************************)
(* pd.concat(frames, ignore_index=True).                                   *)
(***************************************************************************)
\* the objects concat works on: frames without rows and without columns are
\* dropped, unless every frame is such
ConcatObjs(frames) ==
    LET NonEmpty(f) == Len(f.rows) + Len(f.cols) > 0
        nonEmpties == SelectSeq(frames, NonEmpty)
    IN  IF nonEmpties # <<>> THEN nonEmpties ELSE frames

RECURSIVE UnionLabels(_, _)
\* the union of the frames' column labels, each once, in order of first
\* appearance (sort=False)
UnionLabels(acc, labels) ==
    IF labels = <<>> THEN acc
    ELSE UnionLabels(IF Head(labels) \in Range(acc) THEN acc ELSE Append(acc, Head(labels)),
                     Tail(labels))

RECURSIVE AllLabels(_)
AllLabels(frames) ==
    IF frames = <<>> THEN <<>> ELSE Head(frames).cols \o AllLabels(Tail(frames))

\* the combined column axis: the frames' own axis when they all have the same,
\* the union of their labels otherwise
CombinedCols(frames) ==
    LET objs == ConcatObjs(frames)
    IN  IF \A i \in DOMAIN objs : objs[i].cols = objs[1].cols
        THEN objs[1].cols
        ELSE UnionLabels(<<>>, AllLabels(objs))

UniqueLabels(cols) == \A i, j \in DOMAIN cols : cols[i] = cols[j] => i = j

\* a frame whose columns differ from the combined axis is reindexed, and
\* Index.get_indexer raises InvalidIndexError ("Reindexing only valid with uniquely
\* valued Index objects") when that frame's labels repeat
ConcatRaises(frames) ==
    \E i \in DOMAIN ConcatObjs(frames) :
        /\ ConcatObjs(frames)[i].cols # CombinedCols(frames)
        /\ ~UniqueLabels(ConcatObjs(frames)[i].cols)

\* the rows of df under the combined axis; a column df lacks is filled with NaN
Reindexed(df, newcols) ==
    IF df.cols = newcols THEN df.rows
    ELSE [r \in DOMAIN df.rows |->
            [p \in DOMAIN newcols |->
                IF newcols[p] \in Range(df.cols)
                THEN df.rows[r][PositionsOf(df.cols, newcols[p])[1]]
                ELSE NaN]]

RECURSIVE ConcatRows(_, _)
ConcatRows(frames, newcols) ==
    IF frames = <<>> THEN <<>>
    ELSE Reindexed(Head(frames), newcols) \o ConcatRows(Tail(frames), newcols)

\* pd.concat(frames, ignore_index=True), where it does not raise
concat(frames) ==
    Frame(CombinedCols(frames), ConcatRows(ConcatObjs(frames), CombinedCols(frames)))

(***************************************************************************)
(* The CSV files a user can upload or keep under /data.  A file is its     *)
(* name and what pd.read_csv makes of it: an exception, or a frame with    *)
(* the raw headers (an empty field is read as NaN).                        *)
(***************************************************************************)
Files == {
    [name |-> "bad.csv", readable |-> FALSE, df |-> EmptyFrame],
    [name |-> "a.csv", readable |-> TRUE,
     df |-> Frame(<<<<"G","r","a","d","e">>, <<"P","E"," ","C","o","d","e">>>>,
                  <<<<StrCell(<<"4","t","h">>), StrCell(<<"p", "1">>)>>,
                    <<NaN, StrCell(<<"p", "2">>)>>>>)],
    [name |-> "b.csv", readable |-> TRUE,
     df |-> Frame(<<<<"U","n","i","t">>>>, <<<<StrCell(<<"u">>)>>>>)],
    [name |-> "c.csv", readable |-> TRUE,
     df |-> Frame(<<<<"D","o","m","a","i","n">>, <<"T","o","p","i","c">>>>,
                  <<<<StrCell(<<"d">>), StrCell(<<"t">>)>>>>)]
}

FileNamed(n) == CHOOSE f \in Files : f.name = n

\* the batches of a file_uploader selection or of glob("data/*.csv")
Batches == DistinctSeqs({f.name : f \in Files}, MaxBatch)

(***************************************************************************)
(* "Add to Standards dataset" (lines 308-318).                             *)
(***************************************************************************)
\* one pass of the loop body raises: pd.read_csv or add_grade_if_missing
UploadFileRaises(n, default_grade) ==
    \/ ~FileNamed(n).readable
    \/ AddGradeRaises(canonicalize_headers(FileNamed(n).df), default_grade)

\* the frame one pass of the loop body appends to frames
UploadFrame(n, default_grade) ==
    add_grade_if_missing(canonicalize_headers(FileNamed(n).df), default_grade)

\* storing frames into the dataset raises: one of the two pd.concat calls
StoreRaises(df, frames) ==
    \/ ConcatRaises(frames)
    \/ ConcatRaises(<<df, concat(frames)>>)

\* a plausible slip: the new rows replace the dataset instead of extending it
StoreOverwrites(df, frames) == concat(frames)

\* lines 316-317 and 335-336: the dataset with the frames' rows appended
Store(df, frames) == concat(<<df, concat(frames)>>)

\* a plausible slip: each file is stored as soon as it is read, so the files
\* before a failing one stay in the dataset
UploadOutcomeStoredPerFile(df, uploaded, default_grade) ==
    LET bad == {i \in DOMAIN uploaded : UploadFileRaises(uploaded[i], default_grade)}
        n == IF bad = {} THEN Len(uploaded)
             ELSE (CHOOSE i \in bad : \A j \in bad : i <= j) - 1
        frames == [i \in 1..n |-> UploadFrame(uploaded[i], default_grade)]
    IN  IF frames # <<>> /\ StoreRaises(df, frames)
        THEN [raised |-> TRUE, frames |-> <<>>, df |-> df]
        ELSE [raised |-> bad # {}, frames |-> frames,
              df |-> IF frames = <<>> THEN df ELSE Store(df, frames)]

\* the handler's outcome: whether it raised, the frames it stored, the dataset
UploadOutcome(df, uploaded, default_grade) ==
    IF \E i \in DOMAIN uploaded : UploadFileRaises(uploaded[i], default_grade)
    THEN [raised |-> TRUE, frames |-> <<>>, df |-> df]
    ELSE LET frames == [i \in DOMAIN uploaded |-> UploadFrame(uploaded[i], default_grade)]
         IN  IF frames = <<>> THEN [raised |-> FALSE, frames |-> <<>>, df |-> df]
             ELSE IF StoreRaises(df, frames) THEN [raised |-> TRUE, frames |-> <<>>, df |-> df]
             ELSE [raised |-> FALSE, frames |-> frames, df |-> Store(df, frames)]

AddToStandards ==
    /\ pc = "app"
    /\ Len(standards_df.rows) < MaxStored
    /\ \E uploaded \in Batches, default_grade \in DefaultGrades :
          \E o \in {UploadOutcome(standards_df, uploaded, default_grade)} :
              /\ standards_df' = o.df
              /\ ingested' = ingested \o o.frames
              /\ last' = [op |-> "upload", files |-> uploaded, grade |-> default_grade,
                          raised |-> o.raised, before |-> standards_df]
    /\ warnings' = <<>>
    /\ UNCHANGED <<pc, inp, out>>

(***************************************************************************)
(* "Load /data into Standards" (lines 322-337).                            *)
(***************************************************************************)
\* the files of paths whose try block raised, in path order: each is named in a
\* st.warning (canonicalize_headers raises on no frame read_csv returns)
Unreadable(paths) ==
    LET Raises(n) == ~FileNamed(n).readable
    IN  SelectSeq(paths, Raises)

\* frames after the loop: one canonicalized frame per readable file, in path order
LoadFrames(paths) ==
    LET Reads(n) == FileNamed(n).readable
        ok == SelectSeq(paths, Reads)
    IN  [i \in DOMAIN ok |-> canonicalize_headers(FileNamed(ok[i]).df)]

\* the handler's outcome: whether it raised, the frames it stored, the dataset
LoadOutcome(df, paths) ==
    LET frames == LoadFrames(paths)
    IN  IF frames = <<>> THEN [raised |-> FALSE, frames |-> <<>>, df |-> df]
        ELSE IF StoreRaises(df, frames) THEN [raised |-> TRUE, frames |-> <<>>, df |-> df]
        ELSE [raised |-> FALSE, frames |-> frames, df |-> Store(df, frames)]

LoadData ==
    /\ pc = "app"
    /\ Len(standards_df.rows) < MaxStored
    /\ \E paths \in Batches :
          \E o \in {LoadOutcome(standards_df, paths)} :
              /\ standards_df' = o.df
              /\ ingested' = ingested \o o.frames
              /\ warnings' = Unreadable(paths)
              /\ last' = [op |-> "load", files |-> paths, grade |-> <<>>,
                          raised |-> o.raised, before |-> standards_df]
    /\ UNCHANGED <<pc, inp, out>>

(***************************************************************************)
(* "Clear Standards dataset" (lines 339-341).                              *)
(***************************************************************************)
ClearStandards ==
    /\ pc = "app"
    /\ standards_df' = EmptyFrame
    /\ ingested' = <<>>
    /\ warnings' = <<>>
    /\ last' = [op |-> "clear", files |-> <<>>, grade |-> <<>>,
                raised |-> FALSE, before |-> standards_df]
    /\ UNCHANGED <<pc, inp, out>>

Init ==
    /\ pc = "app"
    /\ inp = <<>>
    /\ out = <<>>
    /\ AppIdle

Next == AddToStandards \/ LoadData \/ ClearStandards

Spec == Init /\ [][Next]_vars

(***************************************************************************)
(* Harness of _normalize_header: any short header, or None.                *)
(***************************************************************************)
HeaderChars == {"a", "A", "1", " ", "_", "-"}

InitNorm ==
    /\ pc = "norm_call"
    /\ inp \in {[h |-> h] : h \in StringsUpTo(HeaderChars, MaxLen) \cup {None}}
    /\ out = [once |-> <<>>, twice |-> <<>>]
    /\ AppIdle

NormalizeTwice ==
    /\ pc = "norm_call"
    /\ pc' = "norm_done"
    /\ out' = [once |-> _normalize_header(inp.h),
               twice |-> _normalize_header(_normalize_header(inp.h))]
    /\ UNCHANGED inp
    /\ AppUnchanged

NextNorm == NormalizeTwice

SpecNorm == InitNorm /\ [][NextNorm]_vars

\* C4: _normalize_header is idempotent: normalizing the normalized header of any
\* string (the empty one and None included) returns it unchanged.
C4_NormalizeIdempotent ==
    pc = "norm_done" => out.twice = out.once

\* C4's case: a header with upper case, punctuation and an underscore was normalized.
C4_Witness ==
    /\ pc = "norm_done"
    /\ inp.h = <<"-", "A", "_">>
    /\ out.once = <<"a">>

(***************************************************************************)
(* Harness of canonicalize_headers: a one-row table under every ordering   *)
(* of up to MaxCols distinct raw headers; the cell of input column i is    *)
(* the digit i, which names the column wherever it ends up.                *)
(***************************************************************************)
RawHeaders == {
    <<"D","i","s","c","i","p","l","i","n","a","r","y"," ","C","o","r","e"," ","I","d","e","a">>,
    <<"d","i","s","c","i","p","l","i","n","a","r","y","_","c","o","r","e","_","i","d","e","a">>,
    <<"D","C","I">>,
    <<"T","o","p","i","c">>,
    <<"G","r","a","d","e">>,
    <<"P","E"," ","C","o","d","e">>,
    <<"C","o","r","e","-","I","d","e","a">>,
    <<"U","n","i","t">>
}

ColumnTag(i) == StrCell(<<Digits[i + 1]>>)

TaggedTable(headers) ==
    [cols |-> headers, index |-> <<0>>,
     rows |-> <<[i \in DOMAIN headers |-> ColumnTag(i)]>>]

InitCanon ==
    /\ pc = "canon_call"
    /\ inp \in {[df |-> TaggedTable(hs)] : hs \in DistinctSeqs(RawHeaders, MaxCols)}
    /\ out = EmptyFrame
    /\ AppIdle

Canonicalize ==
    /\ pc = "canon_call"
    /\ pc' = "canon_done"
    /\ out' = canonicalize_headers(inp.df)
    /\ UNCHANGED inp
    /\ AppUnchanged

NextCanon == Canonicalize

SpecCanon == InitCanon /\ [][NextCanon]_vars

\* the ALIAS_MAP entries whose alias set holds the normalized form of a raw header
MatchingEntries(col) ==
    {i \in DOMAIN ALIAS_MAP :
        _normalize_header(col) \in {Lower(v) : v \in Range(ALIAS_MAP[i].variants)}}

\* C3: a column whose normalized header is an alias of two canonical fields is
\* renamed to the one declared earlier in ALIAS_MAP, wherever the column stands
\* among the input's columns.
C3_EarlierAliasWins ==
    pc = "canon_done" =>
        \A i \in DOMAIN inp.df.cols :
            LET hits == MatchingEntries(inp.df.cols[i])
                first == CHOOSE e \in hits : \A f \in hits : e <= f
                at == {p \in DOMAIN out.cols : out.rows[1][p] = ColumnTag(i)}
            IN  Cardinality(hits) >= 2 =>
                    /\ at # {}
                    /\ \A p \in at : out.cols[p] = ALIAS_MAP[first].canon

\* C3's case: "Disciplinary Core Idea", an alias of domain and of dci, stood second
\* behind a column that maps to dci, and came out as the domain column.
C3_Witness ==
    /\ pc = "canon_done"
    /\ Len(inp.df.cols) = 2
    /\ inp.df.cols[2] = <<"D","i","s","c","i","p","l","i","n","a","r","y"," ","C","o","r","e"," ","I","d","e","a">>
    /\ inp.df.cols[1] = <<"D","C","I">>
    /\ \E p \in DOMAIN out.cols :
          out.cols[p] = <<"d","o","m","a","i","n">> /\ out.rows[1][p] = ColumnTag(2)

(***************************************************************************)
(* Harness of add_grade_if_missing: tables with a grade and a code column, *)
(* the grade cells empty, blank, padded, text, numeric or missing.         *)
(***************************************************************************)
CODE == <<"c","o","d","e">>

GradeCells == {
    StrCell(<<>>), StrCell(<<" ">>), StrCell(<<"4","t","h">>), StrCell(<<" ","9","t","h">>),
    NumCell(<<"4">>), NaN
}

InitGrade ==
    /\ pc = "grade_call"
    /\ inp \in {[df |-> Frame(<<GRADE, CODE>>, rows), grade_value |-> g] :
                    rows \in SeqsUpTo({<<c, StrCell(<<"x">>)>> : c \in GradeCells}, MaxRows),
                    g \in DefaultGrades}
    /\ out = EmptyFrame
    /\ AppIdle

AddGrade ==
    /\ pc = "grade_call"
    /\ ~AddGradeRaises(inp.df, inp.grade_value)
    /\ pc' = "grade_done"
    /\ out' = add_grade_if_missing(inp.df, inp.grade_value)
    /\ UNCHANGED inp
    /\ AppUnchanged

NextGrade == AddGrade

SpecGrade == InitGrade /\ [][NextGrade]_vars

DOMAINCOL == <<"d","o","m","a","i","n">>

FilterCells == {StrCell(<<"a", "W">>), StrCell(<<".">>), StrCell(<<>>)}

Patterns == StringsUpTo({"W", "."}, MaxPat)

\* the dicts over the two columns, keys in insertion order
ColFilterDicts ==
    {<<>>}
    \cup {<<[c |-> c, v |-> v]>> : c \in {DOMAINCOL, CODE}, v \in Patterns}
    \cup {<<[c |-> DOMAINCOL, v |-> v], [c |-> CODE, v |-> w]>> : v \in Patterns, w \in Patterns}

InitFilter ==
    /\ pc = "filter_call"
    /\ inp \in {[df |-> Frame(<<DOMAINCOL, CODE>>, rows), search |-> s, col_filters |-> f] :
                    rows \in SeqsUpTo(FilterCells \X FilterCells, MaxRows),
                    s \in Patterns, f \in ColFilterDicts}
    /\ out = EmptyFrame
    /\ AppIdle

FilterContains ==
    /\ pc = "filter_call"
    /\ pc' = "filter_done"
    /\ out' = filter_contains(inp.df, inp.search, inp.col_filters)
    /\ UNCHANGED inp
    /\ AppUnchanged

NextFilter == FilterContains

SpecFilter == InitFilter /\ [][NextFilter]_vars

\* sub occurs in s as a substring
Contains(s, sub) ==
    \E i \in 0..(Len(s) - Len(sub)) : SubSeq(s, i + 1, i + Len(sub)) = sub

\* C1: filter_contains returns exactly the rows for which (the search string is
\* empty or some column's string value contains it as a case-insensitive
\* substring) and (every column with a non-empty pattern contains that pattern as
\* a case-insensitive substring), in their original order, never more rows than
\* it was given.
C1_ExactlyTheSubstringMatches ==
    pc = "filter_done" =>
        LET df == inp.df
            Has(cell, pat) == Contains(Lower(AsStr(cell)), Lower(pat))
            Kept(r) ==
                /\ \/ inp.search = <<>>
                   \/ \E p \in DOMAIN df.cols : Has(df.rows[r][p], inp.search)
                /\ \A k \in DOMAIN inp.col_filters :
                      LET f == inp.col_filters[k]
                      IN  f.v # <<>> =>
                            \A p \in DOMAIN df.cols :
                                df.cols[p] = f.c => Has(df.rows[r][p], f.v)
        IN  /\ out = TakeRows(df, SelectSeq(Positions(Len(df.rows)), Kept))
            /\ Len(out.rows) <= Len(df.rows)

(***************************************************************************)
(* Harness of the Standards pipeline: a stored dataset with a grade and a  *)
(* code column, and the Filter Specs its widgets can produce.              *)
(***************************************************************************)
ShownGrades == {StrCell(<<"4","t","h">>), StrCell(<<"1","0","t","h">>), StrCell(<<"9","t","h">>), NaN}

\* the Filter Specs the widgets of render_standards offer for df
FilterSpecs(df) ==
    {[search |-> s, grade_filter |-> g, sort_col |-> sc, sort_dir |-> sd,
      col_filters |-> cf, cols_visible |-> cv] :
        s \in {<<>>, <<"9">>},
        g \in {{}} \cup {{x} : x \in GradeOptions(df)},
        sc \in Range(df.cols),
        sd \in {"asc", "desc"},
        cf \in {<<>>, <<[c |-> GRADE, v |-> <<>>]>>, <<[c |-> GRADE, v |-> <<"T">>]>>},
        cv \in {df.cols, <<CODE>>, <<CODE, GRADE>>}}

InitRender ==
    /\ pc = "render_call"
    /\ inp \in {[df |-> Frame(<<GRADE, CODE>>, rows)] :
                    rows \in SeqsUpTo({<<g, StrCell(<<"x">>)>> : g \in ShownGrades}, MaxShown)}
    /\ out = [fs |-> <<>>, presort |-> EmptyFrame, work |-> EmptyFrame]
    /\ AppIdle

\* lines 257-260: an empty dataset is announced and nothing is computed
RenderNoRows ==
    /\ pc = "render_call"
    /\ inp.df.rows = <<>> \/ inp.df.cols = <<>>
    /\ pc' = "render_info"
    /\ UNCHANGED <<inp, out>>
    /\ AppUnchanged

\* lines 262-290: the widgets give a Filter Spec, the pipeline runs
Render ==
    /\ pc = "render_call"
    /\ ~(inp.df.rows = <<>> \/ inp.df.cols = <<>>)
    /\ \E fs \in FilterSpecs(inp.df) :
          out' = [fs |-> fs, presort |-> Presort(inp.df, fs),
                  work |-> render_standards(inp.df, fs)]
    /\ pc' = "render_done"
    /\ UNCHANGED inp
    /\ AppUnchanged

NextRender == RenderNoRows \/ Render

SpecRender == InitRender /\ [][NextRender]_vars

\* the Filter Spec with every toggle off: no allow-list, no search, no column
\* filter, every column visible
AllOff(fs, df) ==
    /\ fs.grade_filter = {}
    /\ fs.search = <<>>
    /\ \A k \in DOMAIN fs.col_filters : fs.col_filters[k].v = <<>>
    /\ fs.cols_visible = df.cols

\* C6 as stated: with every toggle off the pipeline returns the stored dataset:
\* the same rows in the same order, the same columns.
C6_AllOffReturnsDataset ==
    (pc = "render_done" /\ AllOff(out.fs, inp.df)) => out.work = inp.df

\* a comes strictly before b in the chosen direction (missing values last)
KeyBefore(a, b, dir) ==
    /\ a.k # "nan"
    /\ \/ b.k = "nan"
       \/ IF dir = "asc" THEN StrLess(a.v, b.v) ELSE StrLess(b.v, a.v)

\* the cell of row i of df in the column labelled c
CellAt(df, i, c) == df.rows[i][PositionsOf(df.cols, c)[1]]

\* C6 amended: with every toggle off the pipeline returns the stored dataset's
\* columns and exactly its rows, each under its own label, but in the order of the
\* chosen sort column and direction (missing values last) - the sort stage cannot
\* be switched off.
C6_AllOffReturnsSortedDataset ==
    (pc = "render_done" /\ AllOff(out.fs, inp.df)) =>
        /\ out.work.cols = inp.df.cols
        /\ Len(out.work.rows) = Len(inp.df.rows)
        /\ \A i \in DOMAIN inp.df.rows :
              \E j \in DOMAIN out.work.rows :
                  /\ out.work.index[j] = inp.df.index[i]
                  /\ out.work.rows[j] = inp.df.rows[i]
        /\ \A i, j \in DOMAIN out.work.rows :
              i < j => ~KeyBefore(CellAt(out.work, j, out.fs.sort_col),
                                  CellAt(out.work, i, out.fs.sort_col), out.fs.sort_dir)

\* C6's case: every toggle off, and a dataset stored as 9th, 4th comes out as 4th, 9th.
C6_Witness ==
    /\ pc = "render_done"
    /\ AllOff(out.fs, inp.df)
    /\ out.fs.sort_col = GRADE /\ out.fs.sort_dir = "asc"
    /\ Len(inp.df.rows) = 2
    /\ inp.df.rows[1][1] = StrCell(<<"9","t","h">>)
    /\ inp.df.rows[2][1] = StrCell(<<"4","t","h">>)
    /\ out.work.index = <<1, 0>>

\* the position of the row labelled l in df
PositionOfLabel(df, l) == CHOOSE i \in DOMAIN df.index : df.index[i] = l

\* C7: the sort stage is stable in both directions: two rows with equal values in
\* the sort column stand after the sort (ascending or descending) in the order
\* they had before it.
C7_SortStable ==
    pc = "render_done" =>
        LET Before(l) == PositionOfLabel(out.presort, l)
            Key(l) == CellAt(out.presort, Before(l), out.fs.sort_col)
        IN  /\ Len(out.work.index) = Len(out.presort.index)
            /\ \A i, j \in DOMAIN out.work.index :
                  (i < j /\ Key(out.work.index[i]) = Key(out.work.index[j]))
                  => Before(out.work.index[i]) < Before(out.work.index[j])

\* C7's case: a descending sort by grade of the stored rows 4th, 9th, 4th gave
\* 9th, 4th, 4th with the two 4th rows in their stored order.
C7_Witness ==
    /\ pc = "render_done"
    /\ out.fs.sort_col = GRADE /\ out.fs.sort_dir = "desc"
    /\ out.fs.grade_filter = {} /\ out.fs.search = <<>>
    /\ Len(inp.df.rows) = 3
    /\ inp.df.rows[1][1] = StrCell(<<"4","t","h">>)
    /\ inp.df.rows[2][1] = StrCell(<<"9","t","h">>)
    /\ inp.df.rows[3][1] = StrCell(<<"4","t","h">>)
    /\ out.work.index = <<1, 0, 2>>

(***************************************************************************)
(* Properties of the ingestion handlers.                                   *)
(***************************************************************************)
\* row k of the dataset df is row r of the frame f: the same cell under every
\* label of f, NaN under the labels f lacks
SameRow(df, k, f, r) ==
    IF f.cols = df.cols THEN df.rows[k] = f.rows[r]
    ELSE /\ UniqueLabels(f.cols)
         /\ Range(f.cols) \subseteq Range(df.cols)
         /\ \A p \in DOMAIN df.cols :
               LET fp == PositionsOf(f.cols, df.cols[p])
               IN  df.rows[k][p] = IF fp = <<>> THEN NaN ELSE f.rows[r][fp[1]]

RECURSIVE LaidOut(_, _, _)
\* the rows of the frames stand in df from row start + 1 on, frame after frame,
\* each frame's rows in their own order
LaidOut(df, start, frames) ==
    \/ frames = <<>>
    \/ /\ \A r \in DOMAIN Head(frames).rows :
             start + r <= Len(df.rows) /\ SameRow(df, start + r, Head(frames), r)
       /\ LaidOut(df, start + Len(Head(frames).rows), Tail(frames))

RECURSIVE TotalRows(_)
TotalRows(frames) ==
    IF frames = <<>> THEN 0 ELSE Len(Head(frames).rows) + TotalRows(Tail(frames))

\* C2: after any sequence of uploads, /data loads and clears the dataset's rows
\* are exactly the rows ingested since the last clear, in action order, then file
\* order, then row order; an action that is not a clear keeps every row that was
\* there, and a clear leaves the empty table without columns.
C2_RowsAreIngestedRowsInOrder ==
    /\ Len(standards_df.rows) = TotalRows(ingested)
    /\ LaidOut(standards_df, 0, ingested)
    /\ last.op \in {"upload", "load"} =>
          /\ LaidOut(standards_df, 0, <<last.before>>)
          /\ Len(standards_df.rows) >= Len(last.before.rows)
    /\ last.op = "clear" => standards_df = EmptyFrame

\* C2's case: a two-row file and a one-row file were added to a dataset that
\* already held a row, giving four rows in action, file, row order.
C2_Witness ==
    /\ last.op = "upload" /\ ~last.raised
    /\ last.files = <<"a.csv", "b.csv">>
    /\ Len(last.before.rows) = 1
    /\ Len(standards_df.rows) = 4
    /\ Len(ingested) = 3
    /\ standards_df.rows[2][1] = StrCell(<<"4","t","h">>)

\* the files of the last batch that pd.read_csv cannot read, in batch order
LastUnreadable ==
    LET Bad(n) == \E f \in Files : f.name = n /\ ~f.readable
    IN  SelectSeq(last.files, Bad)

\* the canonicalized frames of the readable files of the last batch, in batch order
LastReadableFrames ==
    LET Good(n) == \E f \in Files : f.name = n /\ f.readable
        ok == SelectSeq(last.files, Good)
    IN  [i \in DOMAIN ok |-> canonicalize_headers(FileNamed(ok[i]).df)]

\* C8: when a /data load meets a file that cannot be read, the file is skipped
\* with a warning naming it and the batch goes on: the rows of every readable file
\* of the batch are appended to the dataset in path order, and the batch does not
\* fail.
C8_UnreadableFileSkippedBatchGoesOn ==
    (last.op = "load" /\ LastUnreadable # <<>>) =>
        /\ warnings = LastUnreadable
        /\ ~last.raised
        /\ Len(standards_df.rows) = Len(last.before.rows) + TotalRows(LastReadableFrames)
        /\ LaidOut(standards_df, 0, <<last.before>>)
        /\ LaidOut(standards_df, Len(last.before.rows), LastReadableFrames)

\* C9: an upload batch holding a file that cannot be parsed aborts whole: the
\* dataset is exactly what it was before the action, without a row of any file of
\* the batch, the well-formed files before the failing one included.
C9_FailedUploadStoresNothing ==
    (last.op = "upload" /\ LastUnreadable # <<>>) =>
        /\ last.raised
        /\ standards_df = last.before

\* C9's case: a well-formed two-row file stood before the failing file in a batch
\* added to a dataset that already held rows.
C9_Witness ==
    /\ last.op = "upload"
    /\ last.files = <<"a.csv", "bad.csv">>
    /\ last.raised
    /\ Len(last.before.rows) = 1
    /\ Len(standards_df.rows) = 1

\* C10: in every reachable state a dataset with at least one row has a column
\* named grade, so the allow-list stage of render_standards finds its column.
C10_StoredRowsHaveGradeColumn ==
    Len(standards_df.rows) >= 1 => GRADE \in Range(standards_df.cols)

\* C10's case: a file without a grade header was loaded, and its row carries the
\* synthesized empty grade.
C10_Witness ==
    /\ last.op = "load" /\ last.files = <<"b.csv">> /\ ~last.raised
    /\ last.before = EmptyFrame
    /\ standards_df.cols = <<GRADE, <<"u","n","i","t">>>>
    /\ standards_df.rows = <<<<StrCell(<<>>), StrCell(<<"u">>)>>>>

====
